---- MODULE Spec2Model ----
(***************************************************************************)
(* Transport core of the Unreal MCP server (Python/unreal_mcp_server.py):  *)
(* UnrealConnection.connect / disconnect / receive_full_response /         *)
(* send_command and get_unreal_connection, together with the peer on the   *)
(* other end of the TCP socket.                                            *)
(*                                                                         *)
(* Wire data is a sequence of byte runs ("tokens").  A token is a record   *)
(* [k, s]: a run of ASCII bytes forming one JSON lexeme (punctuation, a    *)
(* quoted string, one digit, a literal), a fragment of a literal, or one   *)
(* half of a string whose last character is a two-byte UTF-8 sequence      *)
(* (k = "lead": everything up to and including the lead byte, k = "cont":  *)
(* the continuation byte and the closing quote).  Reads split the stream   *)
(* at token boundaries.                                                    *)
(***************************************************************************)
EXTENDS Integers, Sequences, FiniteSets, TLC

----------------------------------------------------------------------------
(* Bounds of the model *)

\* longest raw (arbitrary) byte stream the peer sends, in tokens
MaxRawLen == 2
\* socket objects created over one run
MaxSockets == 3

----------------------------------------------------------------------------
(* JSON values as Python holds them after json.loads *)

EmptyMap == [k \in {} |-> k]

\* t: "obj" | "list" | "str" | "num" | "bool" | "null"; s: text of a str /
\* bool; n: value of a num; m: members of an obj (by key) or of a list.
JV(t, s, n, m) == [t |-> t, s |-> s, n |-> n, m |-> m]
JStr(s) == JV("str", s, 0, EmptyMap)
JNum(n) == JV("num", "", n, EmptyMap)
JTrue == JV("bool", "true", 0, EmptyMap)
JFalse == JV("bool", "false", 0, EmptyMap)
JNull == JV("null", "", 0, EmptyMap)
JObj(m) == JV("obj", "", 0, m)
JList(m) == JV("list", "", 0, m)

\* Python's None is what json.loads gives for null
PyNone == JNull

----------------------------------------------------------------------------
(* Tokens *)

Tok(k, s) == [k |-> k, s |-> s]
LB == Tok("p", "{")
RB == Tok("p", "}")
LK == Tok("p", "[")
RK == Tok("p", "]")
COLON == Tok("p", ":")
COMMA == Tok("p", ",")
WS == Tok("ws", " ")
TStr(s) == Tok("str", s)
TNum(s) == Tok("num", s)
TLit(s) == Tok("lit", s)
TFrag(s) == Tok("frag", s)
TLead(s) == Tok("lead", s)
TCont == Tok("cont", "")

DigitVal(s) == CASE s = "0" -> 0 [] s = "1" -> 1 [] s = "2" -> 2 [] OTHER -> 3

----------------------------------------------------------------------------
(* bytes.decode('utf-8') *)

\* The bytes are valid UTF-8 iff every lead byte is directly followed by
\* its continuation byte and no continuation byte stands alone.
Utf8Valid(b) ==
    \A i \in 1..Len(b) :
        /\ b[i].k = "lead" => (i < Len(b) /\ b[i + 1].k = "cont")
        /\ b[i].k = "cont" => (i > 1 /\ b[i - 1].k = "lead")

RECURSIVE DecodeFrom(_, _)
DecodeFrom(b, i) ==
    IF i > Len(b) THEN <<>>
    ELSE IF b[i].k = "lead" THEN <<TStr(b[i].s)>> \o DecodeFrom(b, i + 2)
    ELSE <<b[i]>> \o DecodeFrom(b, i + 1)

\* [ok |-> FALSE] stands for UnicodeDecodeError
Decode(b) ==
    IF Utf8Valid(b) THEN [ok |-> TRUE, text |-> DecodeFrom(b, 1)]
    ELSE [ok |-> FALSE, text |-> <<>>]

----------------------------------------------------------------------------
(* json.loads on decoded text *)

\* [ok |-> FALSE] stands for json.JSONDecodeError; n is the index of the
\* first token after the value.
PFail == [ok |-> FALSE, v |-> JNull, n |-> 0]
POk(v, n) == [ok |-> TRUE, v |-> v, n |-> n]

RECURSIVE SkipWs(_, _)
SkipWs(t, i) ==
    IF i <= Len(t) /\ t[i].k = "ws" THEN SkipWs(t, i + 1) ELSE i

\* a number is a maximal run of digits; a leading 0 ends it
RECURSIVE ScanNumber(_, _, _)
ScanNumber(t, i, acc) ==
    IF i <= Len(t) /\ t[i].k = "num"
    THEN ScanNumber(t, i + 1, acc * 10 + DigitVal(t[i].s))
    ELSE POk(JNum(acc), i)

RECURSIVE ParseValue(_, _)
RECURSIVE ParseMembers(_, _, _)
RECURSIVE ParseElements(_, _, _)

\* i stands on the key of the next member; m holds the members so far
\* (a repeated key keeps its last value)
ParseMembers(t, i, m) ==
    IF i > Len(t) \/ t[i].k # "str" THEN PFail
    ELSE LET key == t[i].s
             c == SkipWs(t, i + 1)
         IN IF c > Len(t) \/ t[c] # COLON THEN PFail
            ELSE LET r == ParseValue(t, SkipWs(t, c + 1))
                 IN IF ~r.ok THEN PFail
                    ELSE LET m2 == [k \in DOMAIN m \cup {key} |->
                                       IF k = key THEN r.v ELSE m[k]]
                             e == SkipWs(t, r.n)
                         IN IF e > Len(t) THEN PFail
                            ELSE IF t[e] = RB THEN POk(JObj(m2), e + 1)
                            ELSE IF t[e] = COMMA
                                 THEN ParseMembers(t, SkipWs(t, e + 1), m2)
                            ELSE PFail

\* i stands on the next element; m holds the elements so far
ParseElements(t, i, m) ==
    LET r == ParseValue(t, i)
    IN IF ~r.ok THEN PFail
       ELSE LET m2 == Append(m, r.v)
                e == SkipWs(t, r.n)
            IN IF e > Len(t) THEN PFail
               ELSE IF t[e] = RK THEN POk(JList(m2), e + 1)
               ELSE IF t[e] = COMMA
                    THEN ParseElements(t, SkipWs(t, e + 1), m2)
               ELSE PFail

ParseValue(t, i) ==
    IF i > Len(t) THEN PFail
    ELSE CASE t[i].k = "str" -> POk(JStr(t[i].s), i + 1)
           [] t[i].k = "num" ->
                IF t[i].s = "0" THEN POk(JNum(0), i + 1)
                ELSE ScanNumber(t, i, 0)
           [] t[i].k = "lit" ->
                POk(CASE t[i].s = "true" -> JTrue
                      [] t[i].s = "false" -> JFalse
                      [] OTHER -> JNull, i + 1)
           [] t[i] = LB ->
                LET j == SkipWs(t, i + 1)
                IN IF j <= Len(t) /\ t[j] = RB THEN POk(JObj(EmptyMap), j + 1)
                   ELSE ParseMembers(t, j, EmptyMap)
           [] t[i] = LK ->
                LET j == SkipWs(t, i + 1)
                IN IF j <= Len(t) /\ t[j] = RK THEN POk(JList(<<>>), j + 1)
                   ELSE ParseElements(t, j, <<>>)
           [] OTHER -> PFail

\* json.loads(text): one value, surrounded by optional whitespace, and
\* nothing else ("Extra data" otherwise)
Loads(text) ==
    LET r == ParseValue(text, SkipWs(text, 1))
    IN IF r.ok /\ SkipWs(text, r.n) = Len(text) + 1
       THEN [ok |-> TRUE, v |-> r.v]
       ELSE [ok |-> FALSE, v |-> JNull]

\* json.loads(data.decode('utf-8')) succeeds
ParsesAsJson(b) == Decode(b).ok /\ Loads(Decode(b).text).ok

----------------------------------------------------------------------------
(* Python truthiness and dict access, as send_command uses them *)

Truthy(v) ==
    CASE v.t = "str" -> v.s # ""
      [] v.t = "num" -> v.n # 0
      [] v.t = "bool" -> v.s = "true"
      [] v.t = "null" -> FALSE
      [] OTHER -> DOMAIN v.m # {}

\* a or b
PyOr(a, b) == IF Truthy(a) THEN a ELSE b

\* response.get(key, default)
GetDefault(response, key, default) ==
    IF key \in DOMAIN response.m THEN response.m[key] ELSE default

\* response.get(key)
Get(response, key) == GetDefault(response, key, PyNone)

\* response[key] = value
SetItem(response, key, value) ==
    JObj([k \in DOMAIN response.m \cup {key} |->
             IF k = key THEN value ELSE response.m[k]])

----------------------------------------------------------------------------
(* Outcomes of a call: a value returned or an exception raised *)

Returned(v) == [raised |-> FALSE, v |-> v, exc |-> ""]
Raised(exc) == [raised |-> TRUE, v |-> PyNone, exc |-> exc]

\* str(e) of the exceptions the model raises
ErrClosed == "Connection closed before receiving data"
ErrTimeout == "Timeout receiving Unreal response"
ErrReset == "[Errno 104] Connection reset by peer"
ErrPipe == "[Errno 32] Broken pipe"
ErrUnicode == "'utf-8' codec can't decode byte"
ErrNoneDecode == "'NoneType' object has no attribute 'decode'"
\* response.get on a parsed value that is no mapping
ErrNoGet(v) ==
    CASE v.t = "list" -> "'list' object has no attribute 'get'"
      [] v.t = "str" -> "'str' object has no attribute 'get'"
      [] v.t = "num" -> "'int' object has no attribute 'get'"
      [] v.t = "bool" -> "'bool' object has no attribute 'get'"
      [] OTHER -> "'NoneType' object has no attribute 'get'"
ErrNotSerializable == "Object is not JSON serializable"
UnknownError == "Unknown Unreal error"

\* the canonical failure {"status": "error", "error": msg}
CanonicalFailure(msg) ==
    JObj([status |-> JStr("error"), error |-> msg])

----------------------------------------------------------------------------
(* send_command, lines 260-275: folding the peer's two error shapes *)

\* the operands of "or" exchanged: message preferred over error
ErrorMessage_MessageFirst(response) ==
    PyOr(Get(response, "message"),
         GetDefault(response, "error", JStr(UnknownError)))

ErrorMessage(response) ==
    PyOr(Get(response, "error"),
         GetDefault(response, "message", JStr(UnknownError)))

\* the success == false shape read from "error" alone
Normalize_ErrorKeyOnly(response) ==
    IF response.t # "obj" THEN Raised(ErrNoGet(response))
    ELSE IF Get(response, "status") = JStr("error")
         THEN IF "error" \notin DOMAIN response.m
              THEN Returned(SetItem(response, "error", ErrorMessage(response)))
              ELSE Returned(response)
    ELSE IF Get(response, "success") = JFalse
         THEN Returned(CanonicalFailure(
                  GetDefault(response, "error", JStr(UnknownError))))
    ELSE Returned(response)

\* both shapes rewritten to the canonical mapping
Normalize_AlwaysCanonical(response) ==
    IF response.t # "obj" THEN Raised(ErrNoGet(response))
    ELSE IF \/ Get(response, "status") = JStr("error")
            \/ Get(response, "success") = JFalse
         THEN Returned(CanonicalFailure(ErrorMessage(response)))
    ELSE Returned(response)

\* "not response.get('success')" in place of "is False"
Normalize_FalsySuccess(response) ==
    IF response.t # "obj" THEN Raised(ErrNoGet(response))
    ELSE IF Get(response, "status") = JStr("error")
         THEN IF "error" \notin DOMAIN response.m
              THEN Returned(SetItem(response, "error", ErrorMessage(response)))
              ELSE Returned(response)
    ELSE IF ~Truthy(Get(response, "success"))
         THEN Returned(CanonicalFailure(ErrorMessage(response)))
    ELSE Returned(response)

\* a status == "error" reply rewritten into the success == false shape
Normalize_Relabels(response) ==
    IF response.t # "obj" THEN Raised(ErrNoGet(response))
    ELSE IF Get(response, "status") = JStr("error")
         THEN Returned(JObj([success |-> JFalse,
                             error |-> ErrorMessage(response)]))
    ELSE IF Get(response, "success") = JFalse
         THEN Returned(CanonicalFailure(ErrorMessage(response)))
    ELSE Returned(response)

Normalize(response) ==
    IF response.t # "obj" THEN Raised(ErrNoGet(response))
    ELSE IF Get(response, "status") = JStr("error")
         THEN IF "error" \notin DOMAIN response.m
              THEN Returned(SetItem(response, "error", ErrorMessage(response)))
              ELSE Returned(response)
    ELSE IF Get(response, "success") = JFalse
         THEN Returned(CanonicalFailure(ErrorMessage(response)))
    ELSE Returned(response)

----------------------------------------------------------------------------
(* receive_full_response, one pass of its read loop *)

Continue(data) == [kind |-> "continue", data |-> data, exc |-> ""]
ReturnData(data) == [kind |-> "return", data |-> data, exc |-> ""]
\* the loop was left by break and the function ends without a return
\* statement: the caller gets None
ReturnNothing == [kind |-> "none", data |-> <<>>, exc |-> ""]
RaiseExc(exc) == [kind |-> "raise", data |-> <<>>, exc |-> exc]

\* a receiver for which a close before the first byte is no failure
ReceiveStep_CloseSilent(data, ev, chunk) ==
    CASE ev = "chunk" ->
            LET joined == data \o chunk
                decoded == Decode(joined)
            IN IF ~decoded.ok THEN RaiseExc(ErrUnicode)
               ELSE IF Loads(decoded.text).ok THEN ReturnData(joined)
               ELSE Continue(joined)
      [] ev = "close" -> ReturnNothing
      [] ev = "timeout" ->
            IF data # <<>> /\ ParsesAsJson(data) THEN ReturnData(data)
            ELSE RaiseExc(ErrTimeout)
      [] OTHER -> RaiseExc(ErrReset)

\* a receiver that hands back whatever it has when a read times out
ReceiveStep_TimeoutReturnsBuffer(data, ev, chunk) ==
    CASE ev = "chunk" ->
            LET joined == data \o chunk
                decoded == Decode(joined)
            IN IF ~decoded.ok THEN RaiseExc(ErrUnicode)
               ELSE IF Loads(decoded.text).ok THEN ReturnData(joined)
               ELSE Continue(joined)
      [] ev = "close" ->
            IF data = <<>> THEN RaiseExc(ErrClosed) ELSE ReturnNothing
      [] ev = "timeout" ->
            IF data # <<>> THEN ReturnData(data) ELSE RaiseExc(ErrTimeout)
      [] OTHER -> RaiseExc(ErrReset)

\* a receiver that returns after its first chunk, complete or not
ReceiveStep_ReturnsFirstChunk(data, ev, chunk) ==
    CASE ev = "chunk" ->
            LET joined == data \o chunk
                decoded == Decode(joined)
            IN IF ~decoded.ok THEN RaiseExc(ErrUnicode)
               ELSE ReturnData(joined)
      [] ev = "close" ->
            IF data = <<>> THEN RaiseExc(ErrClosed) ELSE ReturnNothing
      [] ev = "timeout" ->
            IF data # <<>> /\ ParsesAsJson(data) THEN ReturnData(data)
            ELSE RaiseExc(ErrTimeout)
      [] OTHER -> RaiseExc(ErrReset)

\* a receiver that reads on after a complete document, until the timeout
ReceiveStep_KeepsReading(data, ev, chunk) ==
    CASE ev = "chunk" ->
            LET joined == data \o chunk
                decoded == Decode(joined)
            IN IF ~decoded.ok THEN RaiseExc(ErrUnicode)
               ELSE Continue(joined)
      [] ev = "close" ->
            IF data = <<>> THEN RaiseExc(ErrClosed) ELSE ReturnNothing
      [] ev = "timeout" ->
            IF data # <<>> /\ ParsesAsJson(data) THEN ReturnData(data)
            ELSE RaiseExc(ErrTimeout)
      [] OTHER -> RaiseExc(ErrReset)

\* data: b''.join(chunks) before the read (chunks is empty iff data is);
\* ev: what sock.recv does ("chunk": returns the non-empty chunk, "close":
\* returns b'', "timeout": raises socket.timeout, "reset": raises OSError)
ReceiveStep(data, ev, chunk) ==
    CASE ev = "chunk" ->
            LET joined == data \o chunk
                decoded == Decode(joined)
            IN IF ~decoded.ok THEN RaiseExc(ErrUnicode)
               ELSE IF Loads(decoded.text).ok THEN ReturnData(joined)
               ELSE Continue(joined)
      [] ev = "close" ->
            IF data = <<>> THEN RaiseExc(ErrClosed) ELSE ReturnNothing
      [] ev = "timeout" ->
            IF data # <<>> /\ ParsesAsJson(data) THEN ReturnData(data)
            ELSE RaiseExc(ErrTimeout)
      [] OTHER -> RaiseExc(ErrReset)

----------------------------------------------------------------------------
(* send_command, lines 254-300: from the receiver's result to the value    *)
(* returned                                                                *)

\* lines 254-275: decode and parse what the receiver returned, normalize
ProcessResponse(r) ==
    CASE r.kind = "raise" -> Raised(r.exc)
      [] r.kind = "none" -> Raised(ErrNoneDecode)
      [] OTHER ->
            LET decoded == Decode(r.data)
            IN IF ~decoded.ok THEN Raised(ErrUnicode)
               ELSE LET parsed == Loads(decoded.text)
                    IN IF ~parsed.ok THEN Raised("Expecting value")
                       ELSE Normalize(parsed.v)

\* send_command without its except clause: the exception reaches the caller
ExceptHandler_Missing(outcome) == outcome

\* lines 288-300: except Exception as e: return the canonical failure
ExceptHandler(outcome) ==
    IF outcome.raised THEN Returned(CanonicalFailure(JStr(outcome.exc)))
    ELSE outcome

----------------------------------------------------------------------------
(* The peer: what it writes back on one connection *)

\* a string whose last character takes two bytes in UTF-8
NonAscii == "e_acute"

DigitStr(n) == CASE n = 0 -> "0" [] n = 1 -> "1" [] n = 2 -> "2" [] OTHER -> "3"

EncodeScalar(v) ==
    CASE v.t = "str" -> IF v.s = NonAscii THEN <<TLead(v.s), TCont>>
                        ELSE <<TStr(v.s)>>
      [] v.t = "num" -> <<TNum(DigitStr(v.n))>>
      [] v.t = "bool" -> <<TLit(v.s)>>
      [] v.t = "null" -> <<TLit("null")>>
      [] OTHER -> <<LK, RK>>

KeyOrder == <<"status", "success", "error", "message", "result">>

RECURSIVE EncodeMembers(_, _, _)
EncodeMembers(m, i, first) ==
    IF i > Len(KeyOrder) THEN <<>>
    ELSE IF KeyOrder[i] \in DOMAIN m
         THEN (IF first THEN <<>> ELSE <<COMMA>>)
              \o <<TStr(KeyOrder[i]), COLON>> \o EncodeScalar(m[KeyOrder[i]])
              \o EncodeMembers(m, i + 1, FALSE)
    ELSE EncodeMembers(m, i + 1, first)

\* the peer's serialization of a reply mapping
Encode(m) == <<LB>> \o EncodeMembers(m, 1, TRUE) \o <<RB>>

Absent == JV("absent", "", 0, EmptyMap)
Opt(S) == S \cup {Absent}

MkMap(st, su, er, me, re) ==
    LET all == [status |-> st, success |-> su, error |-> er,
                message |-> me, result |-> re]
    IN [k \in {x \in DOMAIN all : all[x] # Absent} |-> all[k]]

\* the reply mappings the peer may send
ReplyMaps ==
    { MkMap(st, su, er, me, re) :
        st \in Opt({JStr("error")}),
        su \in Opt({JTrue, JFalse}),
        er \in Opt({JStr("X"), JStr(""), JNull}),
        me \in Opt({JStr("X"), JStr(NonAscii), JStr("")}),
        re \in {Absent} }

RawAlphabet == {LB, RB, WS, TNum("1"), TStr("X"), TLead(NonAscii), TCont,
                TLit("null")}

RECURSIVE SeqsUpTo(_, _)
SeqsUpTo(S, n) ==
    IF n = 0 THEN {<<>>}
    ELSE LET shorter == SeqsUpTo(S, n - 1)
         IN shorter \cup { Append(q, x) : q \in shorter, x \in S }

\* every byte stream of at most MaxRawLen tokens
RawStreams == SeqsUpTo(RawAlphabet, MaxRawLen)

\* further replies: failure replies with one more field, one whose error
\* text is not ASCII, a success reply with a result
ExtraMaps ==
    { MkMap(JStr("error"), Absent, JStr("X"), Absent, JNum(1)),
      MkMap(JStr("error"), Absent, Absent, JStr("X"), JNum(1)),
      MkMap(Absent, JFalse, JStr("X"), Absent, JNum(1)),
      MkMap(Absent, JFalse, Absent, JStr("X"), JNum(1)),
      MkMap(JStr("error"), Absent, JStr(NonAscii), Absent, Absent),
      MkMap(Absent, JTrue, Absent, Absent, JNum(1)) }

AllReplyMaps == ReplyMaps \cup ExtraMaps

DocStreams == { Encode(m) : m \in AllReplyMaps }

\* a few more streams: a list, a reply followed by whitespace, a reply
\* holding a list
ExtraStreams ==
    { <<LK, TNum("1"), COMMA, TNum("2"), RK>>,
      <<LB, TStr("success"), COLON, TLit("true"), RB, WS>>,
      <<LB, TStr("success"), COLON, TLit("true"), COMMA, TStr("result"),
        COLON, LK, RK, RB>> }

PeerStreams == DocStreams \cup RawStreams \cup ExtraStreams

----------------------------------------------------------------------------
(* State *)

\* the two callers of the overlapping calls
Threads == {1, 2}

\* a caller outside send_command: own is the id of the socket object its
\* connect() created, sock the argument of receive_full_response, used the
\* sockets it wrote to or read from, closed the ones it closed on leaving,
\* mixed whether the other caller was inside send_command during this call
IdleCaller ==
    [pc |-> "idle", own |-> 0, sock |-> 0, used |-> {}, closed |-> {},
     mixed |-> FALSE]

NoCallers == [t \in Threads |-> IdleCaller]

VARIABLES
    gconn,      \* _unreal_connection is an UnrealConnection (not None)
    socket,     \* its self.socket: 0 for None, else the socket object's id
    connected,  \* its self.connected
    socks,      \* every socket object created so far, by id
    pc,         \* where the running send_command stands, or "idle"
    params,     \* the params argument of the running send_command
    stream,     \* what the peer writes back on the current connection
    pos,        \* how much of stream the client has read
    ended,      \* the event that ended the last read, "" for a chunk
    rfr,        \* how receive_full_response ended in this call
    ret,        \* how send_command ended
    last,       \* the operation that returned last, "" while one runs
    connects,   \* connect() calls made by the running send_command
    connres,    \* how its connect() went, "" before it
    exc,        \* str(e) of the exception raised inside this call, "" if none
    used,       \* ids of the sockets this send_command sent on or read from
    tick,       \* parity of the reads that only lengthened the last byte run
    th,         \* the callers of overlapping send_command calls
    log,        \* the socket events of the running send_command, in order
    cfg         \* the configuration layer: file, environment, loaded objects

vars == <<gconn, socket, connected, socks, pc, params, stream, pos, ended,
          rfr, ret, last, connects, connres, exc, used, tick, th, log, cfg>>

Pending == [kind |-> "pending", data |-> <<>>, exc |-> ""]
NoReturn == [raised |-> FALSE, v |-> Absent, exc |-> ""]

\* params: None (or the empty mapping, which "params or {}" treats alike),
\* a non-empty mapping, a mapping json.dumps rejects
ParamValues == {"none", "dict", "bad"}

\* how connect() goes: "early_fail" is an exception before the socket object
\* is stored (get_config, socket.socket), "late_fail" one after it
\* (settimeout, setsockopt, connect), "ok" none
ConnectOutcomes == {"early_fail", "late_fail", "ok"}

\* what one sock.recv does: "chunk" delivers bytes that add to the stream
\* read so far, "more" delivers further whitespace bytes after a stream that
\* ends in whitespace (the peer keeps writing), "close" returns b'',
\* "timeout" raises socket.timeout, "reset" raises OSError
RecvEvents == {"chunk", "more", "close", "timeout", "reset"}

----------------------------------------------------------------------------
(* Socket events of one send_command call *)

\* one socket operation of the call; consecutive sock.recv calls are one
\* "recv" event; arg is the params member of the envelope of a "send"
Ev(op) == [op |-> op, arg |-> ""]

\* lines 244-251: the envelope {"type": command, "params": params or {}}
\* handed to sendall; None and the empty mapping both give {}
SendEv(p) == [op |-> "send", arg |-> IF p = "none" THEN "{}" ELSE p]

----------------------------------------------------------------------------
(* Socket objects *)

\* socket.socket(...): open, not yet connected; cur: created by the
\* send_command call now running
\* wr: the byte runs written to it
NewSocket(cur) == [st |-> "open", tcp |-> FALSE, cur |-> cur, wr |-> <<>>]

\* sock.sendall(bytes) that went through; a run of the same bytes written
\* again lengthens the last run
WriteSocket(sks, id, run) ==
    IF sks[id].wr # <<>> /\ sks[id].wr[Len(sks[id].wr)] = run THEN sks
    ELSE [sks EXCEPT ![id].wr = Append(@, run)]

\* sock.close(), with the exception it may raise swallowed
CloseSocket(sks, id) ==
    IF id = 0 THEN sks ELSE [sks EXCEPT ![id].st = "closed"]

\* what is left of a socket object that was closed and dropped
Gone == [st |-> "closed", tcp |-> FALSE, cur |-> FALSE, wr |-> <<>>]

\* a socket object that was closed and is referenced no more is released;
\* only the fact that it was created is kept
Release(sks) ==
    [i \in DOMAIN sks |-> IF sks[i].st = "closed" THEN Gone ELSE sks[i]]

----------------------------------------------------------------------------
(* UnrealConnection.connect, lines 133-168 *)

\* a connect() that leaves the socket it holds open
connect_KeepsOld(sock, sks, outcome, cur) ==
    LET id == Len(sks) + 1
    IN CASE outcome = "early_fail" ->
                [socket |-> 0, connected |-> FALSE, socks |-> sks,
                 ok |-> FALSE]
         [] outcome = "late_fail" ->
                [socket |-> id, connected |-> FALSE,
                 socks |-> Append(sks, NewSocket(cur)), ok |-> FALSE]
         [] OTHER ->
                [socket |-> id, connected |-> TRUE,
                 socks |-> Append(sks, [NewSocket(cur) EXCEPT !.tcp = TRUE]),
                 ok |-> TRUE]

\* a connect() whose except clause leaves the connected flag as it was
connect_KeepsFlag(sock, sks, outcome, cur) ==
    LET closed == CloseSocket(sks, sock)
        id == Len(sks) + 1
    IN CASE outcome = "early_fail" ->
                [socket |-> 0, connected |-> connected, socks |-> closed,
                 ok |-> FALSE]
         [] outcome = "late_fail" ->
                [socket |-> id, connected |-> connected,
                 socks |-> Append(closed, NewSocket(cur)), ok |-> FALSE]
         [] OTHER ->
                [socket |-> id, connected |-> TRUE,
                 socks |-> Append(closed, [NewSocket(cur) EXCEPT !.tcp = TRUE]),
                 ok |-> TRUE]

connect(sock, sks, outcome, cur) ==
    LET closed == CloseSocket(sks, sock)
        id == Len(sks) + 1
    IN CASE outcome = "early_fail" ->
                [socket |-> 0, connected |-> FALSE, socks |-> closed,
                 ok |-> FALSE]
         [] outcome = "late_fail" ->
                [socket |-> id, connected |-> FALSE,
                 socks |-> Append(closed, NewSocket(cur)), ok |-> FALSE]
         [] OTHER ->
                [socket |-> id, connected |-> TRUE,
                 socks |-> Append(closed, [NewSocket(cur) EXCEPT !.tcp = TRUE]),
                 ok |-> TRUE]

\* a disconnect() that drops the socket and keeps the connected flag
disconnect_KeepsFlag(sock, sks) ==
    [socket |-> 0, connected |-> connected, socks |-> CloseSocket(sks, sock)]

(* UnrealConnection.disconnect, lines 170-178 *)
disconnect(sock, sks) ==
    [socket |-> 0, connected |-> FALSE, socks |-> CloseSocket(sks, sock)]

----------------------------------------------------------------------------
(* Configuration layer: tools/config_manager.py *)

\* An optional value is a sequence: <<>> when absent, <<v>> when given.
\* Of the connection section the port, timeout and buffer_size are kept.

\* the defaults of the ConnectionConfig fields, lines 48-50
DefaultConnection == [port |-> 55557, timeout |-> 5, buffer_size |-> 65536]

\* what a configuration file may say under "connection"
FilePorts == {<<>>, <<0>>, <<8080>>}
FileTimeouts == {<<>>, <<0>>}
FileBufferSizes == {<<>>, <<0>>}

\* a file that load_config_file cannot parse
BrokenFile == [ok |-> FALSE, port |-> <<>>, timeout |-> <<>>,
               buffer_size |-> <<>>]

\* the configuration files: the connection keys of one that parses (no file
\* at all reads as one without keys), or one that does not parse
Files ==
    [ok : {TRUE}, port : FilePorts, timeout : FileTimeouts,
     buffer_size : FileBufferSizes] \cup {BrokenFile}

\* the values of UNREAL_MCP_PORT and UNREAL_MCP_TIMEOUT, <<>> when unset
EnvTexts == {<<>>, <<"0">>, <<"9090">>, <<"abc">>}
Envs == [port : EnvTexts, timeout : {<<>>, <<"0">>}]

\* int(text), the converter of lines 274-275 applied at line 288: <<>>
\* when it raises
IntOf(text) ==
    CASE text = "0" -> <<0>>
      [] text = "9090" -> <<9090>>
      [] OTHER -> <<>>

\* ConnectionConfig(**d), lines 45-65: the validators run on the fields that
\* are given; <<>> when one of them raises
ConnectionConfig(d) ==
    LET given(key) == d[key] # <<>>
    IN IF \/ given("port") /\ ~(1 <= d.port[1] /\ d.port[1] <= 65535)
          \/ given("timeout") /\ d.timeout[1] <= 0
       THEN <<>>
       ELSE <<[key \in {"port", "timeout", "buffer_size"} |->
                 IF given(key) THEN d[key][1] ELSE DefaultConnection[key]]>>

\* apply_environment_overrides, lines 262-294: a variable that is set and
\* converts replaces the key, one that does not convert is skipped
ApplyEnvironmentOverrides(d, env) ==
    LET over(key) ==
            IF env[key] # <<>> /\ IntOf(env[key][1]) # <<>>
            THEN IntOf(env[key][1]) ELSE d[key]
    IN [port |-> over("port"), timeout |-> over("timeout"),
        buffer_size |-> d.buffer_size]

\* ConfigManager.load_config, lines 315-353: raises when the file does not
\* parse; falls back to the defaults when validation fails
LoadConfig(file, env) ==
    IF ~file.ok THEN [raised |-> TRUE, config |-> DefaultConnection]
    ELSE LET c == ConnectionConfig(ApplyEnvironmentOverrides(file, env))
         IN [raised |-> FALSE,
             config |-> IF c = <<>> THEN DefaultConnection ELSE c[1]]

\* nothing loaded yet: file and env are the surroundings, mgr is
\* ConfigManager._config, server the _config global of the server module,
\* target the settings the last connect() used, op the last step
NoCfg ==
    [file |-> [ok |-> TRUE, port |-> <<>>, timeout |-> <<>>,
               buffer_size |-> <<>>],
     env |-> [port |-> <<>>, timeout |-> <<>>],
     mgr |-> <<>>, server |-> <<>>, target |-> <<>>, op |-> ""]

----------------------------------------------------------------------------
(* Initial state: module load, lines 302-303 *)

Init ==
    /\ gconn = FALSE
    /\ socket = 0
    /\ connected = FALSE
    /\ socks = <<>>
    /\ pc = "idle"
    /\ params = "none"
    /\ stream = <<>>
    /\ pos = 0
    /\ ended = ""
    /\ rfr = Pending
    /\ ret = NoReturn
    /\ last = ""
    /\ connects = 0
    /\ connres = ""
    /\ exc = ""
    /\ used = {}
    /\ tick = 0
    /\ th = NoCallers
    /\ log = <<>>
    /\ cfg = NoCfg

----------------------------------------------------------------------------
(* send_command *)

\* a connection that says it is connected is kept and used as it is
SendCommandBegin_Reuse(p) ==
    /\ pc = "idle"
    /\ gconn
    /\ Len(socks) < MaxSockets
    /\ socks' = [i \in DOMAIN socks |->
                    [Release(socks)[i] EXCEPT !.cur = FALSE]]
    /\ pc' = IF connected THEN "send" ELSE "connect"
    /\ params' = p
    /\ stream' = <<>>
    /\ pos' = 0
    /\ ended' = ""
    /\ rfr' = Pending
    /\ ret' = NoReturn
    /\ connects' = 0
    /\ connres' = IF connected THEN "ok" ELSE ""
    /\ exc' = ""
    /\ used' = {}
    /\ last' = ""
    /\ tick' = 0
    /\ log' = <<>>
    /\ UNCHANGED <<gconn, socket, connected, th, cfg>>

\* lines 229-235: close and drop whatever socket the object still holds
SendCommandBegin(p) ==
    /\ pc = "idle"
    /\ gconn
    /\ Len(socks) < MaxSockets
    /\ socks' = [i \in DOMAIN socks |->
                    [Release(CloseSocket(socks, socket))[i]
                        EXCEPT !.cur = FALSE]]
    /\ socket' = 0
    /\ connected' = IF socket # 0 THEN FALSE ELSE connected
    /\ pc' = "connect"
    /\ params' = p
    /\ stream' = <<>>
    /\ pos' = 0
    /\ ended' = ""
    /\ rfr' = Pending
    /\ ret' = NoReturn
    /\ connects' = 0
    /\ connres' = ""
    /\ exc' = ""
    /\ used' = {}
    /\ last' = ""
    /\ tick' = 0
    /\ log' = <<>>
    /\ UNCHANGED <<gconn, th, cfg>>

\* str(e) of the exception connect() caught and logged
ErrConnect == "connect() failed"

\* a failed connect reported as a mapping instead
ConnectFailureResult_Mapping == Returned(CanonicalFailure(JStr(ErrConnect)))

\* line 239: what send_command returns when connect() returned False
ConnectFailureResult == Returned(PyNone)

\* a send_command that goes on to send whether or not connect() succeeded
SendCommandConnect_GoesOn(outcome) ==
    /\ pc = "connect"
    /\ LET c == connect(socket, socks, outcome, TRUE)
       IN /\ socket' = c.socket
          /\ connected' = c.connected
          /\ socks' = c.socks
          /\ connects' = connects + 1
          /\ connres' = outcome
          /\ IF c.socket # 0
             THEN /\ pc' = "send"
                  /\ log' = Append(log, Ev("connect"))
                  /\ UNCHANGED <<ret, last, exc>>
             ELSE /\ pc' = "idle"
                  /\ log' = log \o <<Ev("connect"), Ev("return")>>
                  /\ ret' = ConnectFailureResult
                  /\ exc' = ErrConnect
                  /\ last' = "send_command"
    /\ UNCHANGED <<gconn, params, stream, pos, ended, rfr, used, tick, th,
                   cfg>>

\* lines 237-239: connect(); a failed connect ends the call
SendCommandConnect(outcome) ==
    /\ pc = "connect"
    /\ LET c == connect(socket, socks, outcome, TRUE)
       IN /\ socket' = c.socket
          /\ connected' = c.connected
          /\ socks' = c.socks
          /\ connects' = connects + 1
          /\ connres' = outcome
          /\ IF c.ok
             THEN /\ pc' = "send"
                  /\ log' = Append(log, Ev("connect"))
                  /\ UNCHANGED <<ret, last, exc>>
             ELSE /\ pc' = "idle"
                  /\ log' = log \o <<Ev("connect"), Ev("return")>>
                  /\ ret' = ConnectFailureResult
                  /\ exc' = ErrConnect
                  /\ last' = "send_command"
    /\ UNCHANGED <<gconn, params, stream, pos, ended, rfr, used, tick, th,
                   cfg>>

\* a call that returns with its socket still open and held
EndCall_NoClose(outcome, events) ==
    /\ UNCHANGED <<socks, socket, connected>>
    /\ ret' = ExceptHandler(outcome)
    /\ exc' = outcome.exc
    /\ pc' = "idle"
    /\ last' = "send_command"
    /\ log' = Append(events, Ev("return"))

\* a call that closes and drops its socket and keeps the connected flag
EndCall_KeepsFlag(outcome, events) ==
    /\ socks' = CloseSocket(socks, socket)
    /\ socket' = 0
    /\ UNCHANGED connected
    /\ ret' = ExceptHandler(outcome)
    /\ exc' = outcome.exc
    /\ pc' = "idle"
    /\ last' = "send_command"
    /\ log' = events \o <<Ev("close"), Ev("return")>>

\* the end of a call whose connect succeeded: the socket is closed and
\* dropped, connected is cleared (lines 277-286 and 288-300)
EndCall(outcome, events) ==
    /\ socks' = CloseSocket(socks, socket)
    /\ socket' = 0
    /\ connected' = FALSE
    /\ ret' = ExceptHandler(outcome)
    /\ exc' = outcome.exc
    /\ pc' = "idle"
    /\ last' = "send_command"
    /\ log' = events \o <<Ev("close"), Ev("return")>>

\* lines 241-251: build the envelope and write it in one sendall
SendCommandSend(sendok, reply) ==
    /\ pc = "send"
    /\ IF params = "bad"
       THEN /\ EndCall(Raised(ErrNotSerializable), log)
            /\ UNCHANGED <<stream, used>>
       ELSE IF ~sendok
       THEN /\ EndCall(Raised(ErrPipe), Append(log, SendEv(params)))
            /\ used' = used \cup {socket}
            /\ UNCHANGED stream
       ELSE /\ used' = used \cup {socket}
            /\ socks' = WriteSocket(socks, socket, "envelope")
            /\ log' = Append(log, SendEv(params))
            /\ stream' = reply
            /\ pc' = "recv"
            /\ UNCHANGED <<socket, connected, ret, last, exc>>
    /\ UNCHANGED <<gconn, params, pos, ended, rfr, connects, connres, tick,
                   th, cfg>>

\* lines 254-300: one read of receive_full_response and, when that ends the
\* receiver, the rest of send_command
SendCommandReceive(ev, n) ==
    /\ pc = "recv"
    /\ ev = "chunk" => n \in 1..(Len(stream) - pos)
    /\ ev # "chunk" => n = 0
    /\ ev = "more" => (pos > 0 /\ pos = Len(stream) /\ stream[pos] = WS)
    /\ LET data == SubSeq(stream, 1, pos)
           chunk == SubSeq(stream, pos + 1, pos + n)
           r == ReceiveStep(data, IF ev = "more" THEN "chunk" ELSE ev, chunk)
           events == IF log[Len(log)] = Ev("recv") THEN log
                     ELSE Append(log, Ev("recv"))
       IN /\ pos' = pos + n
          /\ ended' = IF ev \in {"chunk", "more"} THEN "" ELSE ev
          /\ tick' = IF ev = "more" THEN 1 - tick ELSE tick
          /\ used' = used \cup {socket}
          /\ IF r.kind = "continue"
             THEN /\ log' = events
                  /\ UNCHANGED <<socket, connected, socks, pc, rfr, ret,
                                 last, exc>>
             ELSE /\ rfr' = r
                  /\ EndCall(ProcessResponse(r), events)
    /\ UNCHANGED <<gconn, params, stream, connects, connres, th, cfg>>

----------------------------------------------------------------------------
(* get_unreal_connection, lines 305-335 *)

\* a get_unreal_connection that hands out the cached object unprobed
GetUnrealConnection_NoProbe(outcome, pingok) ==
    /\ pc = "idle"
    /\ Len(socks) < MaxSockets
    /\ LET c == connect(0, Release(socks), outcome, FALSE)
       IN IF gconn
          THEN UNCHANGED <<gconn, socket, connected, socks>>
          ELSE /\ gconn' = c.ok
               /\ socket' = IF c.ok THEN c.socket ELSE 0
               /\ connected' = c.ok
               /\ socks' = c.socks
    /\ last' = "get_unreal_connection"
    /\ params' = "none"
    /\ stream' = <<>>
    /\ pos' = 0
    /\ ended' = ""
    /\ rfr' = Pending
    /\ ret' = NoReturn
    /\ connects' = 0
    /\ connres' = ""
    /\ exc' = ""
    /\ used' = {}
    /\ tick' = 0
    /\ log' = <<>>
    /\ UNCHANGED <<pc, th, cfg>>

\* pingok: whether sendall(b'\x00') on a connected socket goes through
GetUnrealConnection(outcome, pingok) ==
    /\ pc = "idle"
    /\ Len(socks) < MaxSockets
    /\ LET alive == /\ gconn
                    /\ socket # 0
                    /\ socks[socket].tcp
                    /\ pingok
           d == IF gconn THEN disconnect(socket, socks)
                ELSE [socket |-> 0, connected |-> FALSE, socks |-> socks]
           c == connect(0, Release(d.socks), outcome, FALSE)
       IN IF alive
          THEN /\ socks' = Release(WriteSocket(socks, socket, "nul"))
               /\ UNCHANGED <<gconn, socket, connected>>
          ELSE /\ gconn' = c.ok
               /\ socket' = IF c.ok THEN c.socket ELSE 0
               /\ connected' = c.ok
               /\ socks' = c.socks
    /\ last' = "get_unreal_connection"
    /\ params' = "none"
    /\ stream' = <<>>
    /\ pos' = 0
    /\ ended' = ""
    /\ rfr' = Pending
    /\ ret' = NoReturn
    /\ connects' = 0
    /\ connres' = ""
    /\ exc' = ""
    /\ used' = {}
    /\ tick' = 0
    /\ log' = <<>>
    /\ UNCHANGED <<pc, th, cfg>>

----------------------------------------------------------------------------
(* Specification *)

Next ==
    \/ \E p \in ParamValues : SendCommandBegin(p)
    \/ \E outcome \in ConnectOutcomes : SendCommandConnect(outcome)
    \/ \E sendok \in BOOLEAN, reply \in PeerStreams :
          SendCommandSend(sendok, reply)
    \/ \E ev \in RecvEvents, n \in 0..Len(stream) : SendCommandReceive(ev, n)
    \/ \E outcome \in ConnectOutcomes, pingok \in BOOLEAN :
          GetUnrealConnection(outcome, pingok)

Spec == Init /\ [][Next]_vars

\* a step of the send_command call that is running (the read that raises,
\* one of the reads of the last line, is named first: a receiving call can
\* always take it)
RunningCallStep ==
    \/ SendCommandReceive("reset", 0)
    \/ \E outcome \in ConnectOutcomes : SendCommandConnect(outcome)
    \/ \E sendok \in BOOLEAN, reply \in PeerStreams :
          SendCommandSend(sendok, reply)
    \/ \E ev \in RecvEvents, n \in 0..Len(stream) : SendCommandReceive(ev, n)

\* the caller's thread keeps running and every blocking socket operation
\* (connect, sendall, recv) returns or times out: a call that can take a
\* step takes one.  Nothing is assumed of what the peer does.
FairSpec == Spec /\ WF_vars(RunningCallStep)

----------------------------------------------------------------------------
(* send_command called by two callers at once on the one connection object *)
(* Each action is a run of statements of one caller; the statements of the  *)
(* other caller may come between any two actions.  The object's socket and  *)
(* connected fields are shared, everything else is local to the caller.     *)

\* what the overlapping calls leave alone
callvars == <<gconn, pc, params, stream, pos, ended, rfr, ret, last, connects,
              connres, exc, used, tick, log, cfg>>

Other(t) == CHOOSE u \in Threads : u # t

\* a socket operation on self.socket works: it is a socket, still open
Usable(id) == id # 0 /\ socks[id].st = "open"

\* the state after get_unreal_connection connected at server startup
ConcInit ==
    /\ gconn = TRUE
    /\ socket = 1
    /\ connected = TRUE
    /\ socks = <<[NewSocket(FALSE) EXCEPT !.tcp = TRUE]>>
    /\ pc = "idle"
    /\ params = "none"
    /\ stream = <<>>
    /\ pos = 0
    /\ ended = ""
    /\ rfr = Pending
    /\ ret = NoReturn
    /\ last = "get_unreal_connection"
    /\ connects = 0
    /\ connres = ""
    /\ exc = ""
    /\ used = {}
    /\ tick = 0
    /\ th = NoCallers
    /\ log = <<>>
    /\ cfg = NoCfg

\* a caller that keeps a connection that says it is connected
CBegin_Reuse(t) ==
    /\ th[t].pc = "idle"
    /\ Len(socks) + Cardinality({u \in Threads : th[u].pc = "begun"})
          < MaxSockets
    /\ th' = [u \in Threads |->
                IF u = t
                THEN [IdleCaller EXCEPT
                        !.pc = IF connected THEN "send" ELSE "begun",
                        !.mixed = th[Other(t)].pc # "idle"]
                ELSE IF th[u].pc # "idle" THEN [th[u] EXCEPT !.mixed = TRUE]
                ELSE th[u]]
    /\ UNCHANGED <<socket, connected, socks, callvars>>

\* lines 229-235: close and drop the socket the object holds
CBegin(t) ==
    /\ th[t].pc = "idle"
    /\ Len(socks) + Cardinality({u \in Threads : th[u].pc = "begun"})
          < MaxSockets
    /\ socks' = CloseSocket(socks, socket)
    /\ socket' = 0
    /\ connected' = IF socket # 0 THEN FALSE ELSE connected
    /\ th' = [u \in Threads |->
                IF u = t
                THEN [IdleCaller EXCEPT !.pc = "begun",
                                        !.mixed = th[Other(t)].pc # "idle"]
                ELSE IF th[u].pc # "idle" THEN [th[u] EXCEPT !.mixed = TRUE]
                ELSE th[u]]
    /\ UNCHANGED callvars

\* connect(), lines 137-149: close the socket the object holds, create a
\* new one and store it in self.socket
CConnCreate(t) ==
    /\ th[t].pc = "begun"
    /\ socks' = Append(CloseSocket(socks, socket), NewSocket(FALSE))
    /\ socket' = Len(socks) + 1
    /\ th' = [th EXCEPT ![t].pc = "connecting", ![t].own = Len(socks) + 1]
    /\ UNCHANGED <<connected, callvars>>

\* connect(), lines 150-168: settimeout, setsockopt and connect on whatever
\* self.socket is now; a failure ends send_command at line 239
CConnConnect(t, outcome) ==
    /\ th[t].pc = "connecting"
    /\ IF Usable(socket) /\ ~socks[socket].tcp /\ outcome = "ok"
       THEN /\ socks' = [socks EXCEPT ![socket].tcp = TRUE]
            /\ connected' = TRUE
            /\ th' = [th EXCEPT ![t].pc = "send"]
       ELSE /\ connected' = FALSE
            /\ th' = [th EXCEPT ![t].pc = "idle"]
            /\ UNCHANGED socks
    /\ UNCHANGED <<socket, callvars>>

\* line 251: self.socket.sendall(envelope)
CSend(t, sendok) ==
    /\ th[t].pc = "send"
    /\ IF Usable(socket) /\ socks[socket].tcp
       THEN IF sendok
            THEN /\ socks' = WriteSocket(socks, socket, "envelope")
                 /\ th' = [th EXCEPT ![t].pc = "enter",
                                     ![t].used = @ \cup {socket}]
            ELSE /\ th' = [th EXCEPT ![t].pc = "except",
                                     ![t].used = @ \cup {socket}]
                 /\ UNCHANGED socks
       ELSE /\ th' = [th EXCEPT ![t].pc = "except"]
            /\ UNCHANGED socks
    /\ UNCHANGED <<socket, connected, callvars>>

\* lines 254 and 183: self.socket is handed to receive_full_response,
\* which sets its timeout
CRecvEnter(t) ==
    /\ th[t].pc = "enter"
    /\ IF Usable(socket)
       THEN th' = [th EXCEPT ![t].pc = "recv", ![t].sock = socket]
       ELSE th' = [th EXCEPT ![t].pc = "except"]
    /\ UNCHANGED <<socket, connected, socks, callvars>>

\* lines 185-275: the reads on the receiver's sock and the normalization;
\* ok: a reply arrived and nothing raised
CRecv(t, ok) ==
    /\ th[t].pc = "recv"
    /\ IF Usable(th[t].sock)
       THEN th' = [th EXCEPT ![t].pc = IF ok THEN "finish" ELSE "except",
                             ![t].used = @ \cup {th[t].sock}]
       ELSE th' = [th EXCEPT ![t].pc = "except"]
    /\ UNCHANGED <<socket, connected, socks, callvars>>

\* lines 277-286 and 288-300: close self.socket, drop it, return
CClose(t) ==
    /\ th[t].pc \in {"finish", "except"}
    /\ socks' = CloseSocket(socks, socket)
    /\ socket' = 0
    /\ connected' = FALSE
    /\ th' = [th EXCEPT ![t].pc = "idle",
                        ![t].closed = IF socket # 0 THEN @ \cup {socket} ELSE @]
    /\ UNCHANGED callvars

ConcNext ==
    \E t \in Threads :
        \/ CBegin(t)
        \/ CConnCreate(t)
        \/ \E outcome \in {"late_fail", "ok"} : CConnConnect(t, outcome)
        \/ \E sendok \in BOOLEAN : CSend(t, sendok)
        \/ CRecvEnter(t)
        \/ \E ok \in BOOLEAN : CRecv(t, ok)
        \/ CClose(t)

ConcSpec == ConcInit /\ [][ConcNext]_vars

----------------------------------------------------------------------------
(* The methods of one UnrealConnection called in any order *)

\* the state after UnrealConnection(), lines 128-131
ApiInit ==
    /\ gconn = TRUE
    /\ socket = 0
    /\ connected = FALSE
    /\ socks = <<>>
    /\ pc = "idle"
    /\ params = "none"
    /\ stream = <<>>
    /\ pos = 0
    /\ ended = ""
    /\ rfr = Pending
    /\ ret = NoReturn
    /\ last = ""
    /\ connects = 0
    /\ connres = ""
    /\ exc = ""
    /\ used = {}
    /\ tick = 0
    /\ th = NoCallers
    /\ log = <<>>
    /\ cfg = NoCfg

\* what a method called outside send_command leaves of the last call
ResetCall ==
    /\ params' = "none"
    /\ stream' = <<>>
    /\ pos' = 0
    /\ ended' = ""
    /\ rfr' = Pending
    /\ connects' = 0
    /\ exc' = ""
    /\ used' = {}
    /\ tick' = 0
    /\ log' = <<>>
    /\ UNCHANGED <<gconn, pc, th, cfg>>

\* connect() called on the object, lines 133-168
Connect(outcome) ==
    /\ pc = "idle"
    /\ Len(socks) < MaxSockets
    /\ LET c == connect(socket, socks, outcome, FALSE)
       IN /\ socket' = c.socket
          /\ connected' = c.connected
          /\ socks' = c.socks
          /\ ret' = Returned(IF c.ok THEN JTrue ELSE JFalse)
    /\ connres' = outcome
    /\ last' = "connect"
    /\ ResetCall

\* disconnect() called on the object, lines 170-178
Disconnect ==
    /\ pc = "idle"
    /\ LET d == disconnect(socket, socks)
       IN /\ socket' = d.socket
          /\ connected' = d.connected
          /\ socks' = d.socks
    /\ ret' = Returned(PyNone)
    /\ connres' = ""
    /\ last' = "disconnect"
    /\ ResetCall

ApiNext ==
    \/ \E outcome \in ConnectOutcomes : Connect(outcome)
    \/ Disconnect
    \/ \E p \in ParamValues : SendCommandBegin(p)
    \/ \E outcome \in ConnectOutcomes : SendCommandConnect(outcome)
    \/ \E sendok \in BOOLEAN, reply \in PeerStreams :
          SendCommandSend(sendok, reply)
    \/ \E ev \in RecvEvents, n \in 0..Len(stream) : SendCommandReceive(ev, n)

ApiSpec == ApiInit /\ [][ApiNext]_vars

----------------------------------------------------------------------------
(* Loading, reloading and using the configuration *)

\* what the configuration steps leave alone
transport == <<gconn, socket, connected, socks, pc, params, stream, pos,
               ended, rfr, ret, last, connects, connres, exc, used, tick, th,
               log>>

\* the configuration file is written or replaced
WriteFile(f) ==
    /\ f # cfg.file
    /\ cfg' = [cfg EXCEPT !.file = f, !.op = "edit"]
    /\ UNCHANGED transport

\* the environment of the process is set
SetEnv(e) ==
    /\ cfg.op = ""
    /\ e # cfg.env
    /\ cfg' = [cfg EXCEPT !.env = e]
    /\ UNCHANGED transport

\* load_configuration(), lines 53-116: the manager loads, the result is
\* kept in the server's _config; the defaults when anything raises
LoadConfigurationOf(c) ==
    LET r == LoadConfig(c.file, c.env)
    IN IF r.raised THEN [c EXCEPT !.server = <<DefaultConnection>>]
       ELSE [c EXCEPT !.mgr = <<r.config>>, !.server = <<r.config>>]

\* server_lifespan at startup, line 345
LoadConfiguration ==
    /\ cfg' = [LoadConfigurationOf(cfg) EXCEPT !.op = "load"]
    /\ UNCHANGED transport

\* ConfigManager.reload_config, lines 366-374, and load_config called on
\* the manager by the configuration tools: the manager's object is replaced
ReloadConfig ==
    /\ LET r == LoadConfig(cfg.file, cfg.env)
       IN cfg' = [cfg EXCEPT !.mgr = IF r.raised THEN @ ELSE <<r.config>>,
                             !.op = "reload"]
    /\ UNCHANGED transport

\* get_config(), lines 118-123: the server's _config, loaded when None
GetConfigOf(c) == IF c.server = <<>> THEN LoadConfigurationOf(c) ELSE c

\* connect(), lines 144-160: the settings read from get_config() and
\* handed to settimeout, setsockopt and connect
ConfigConnect ==
    /\ cfg' = [GetConfigOf(cfg) EXCEPT !.target = GetConfigOf(cfg).server,
                                       !.op = "connect"]
    /\ UNCHANGED transport

ConfigNext ==
    \/ \E f \in Files : WriteFile(f)
    \/ \E e \in Envs : SetEnv(e)
    \/ LoadConfiguration
    \/ ReloadConfig
    \/ ConfigConnect

ConfigSpec == Init /\ [][ConfigNext]_vars

----------------------------------------------------------------------------
(* Properties *)

\* send_command has just returned
Done == pc = "idle" /\ last = "send_command"

ConnectFailed == connres \in {"early_fail", "late_fail"}

\* v is {"status": "error", "error": <a string>} and nothing else
IsCanonicalFailure(v) ==
    /\ v.t = "obj"
    /\ DOMAIN v.m = {"status", "error"}
    /\ v.m["status"] = JStr("error")
    /\ v.m["error"].t = "str"

\* C1: after every return of send_command, whatever the outcome, the
\* connected flag is false and the socket handle is None.
C1_ClosedAfterSendCommand ==
    Done => (connected = FALSE /\ socket = 0)

C4_ReturnsCompleteJsonOrRaises ==
    \/ rfr.kind \in {"pending", "raise"}
    \/ rfr.kind = "return" /\ ParsesAsJson(rfr.data)

\* the peer wrote the whole of stream and then closed, and did nothing else
\* before the receiver ended
WholeStreamThenClose ==
    \/ ended = ""
    \/ ended = "close" /\ pos = Len(stream)

\* no read boundary inside stream leaves bytes that already parse
NoProperPrefixParses(b) ==
    \A k \in 1..(Len(b) - 1) : ~ParsesAsJson(SubSeq(b, 1, k))

\* C5: when the peer's stream is one valid JSON document followed by a
\* close, receive_full_response returns exactly the bytes of that document,
\* however the reads split it.  Stated here for the documents no proper
\* prefix of which is itself a complete document, the ones for which
\* completion by parsing cannot stop early.
C5_WholeDocumentReturned ==
    (/\ rfr.kind # "pending"
     /\ ParsesAsJson(stream)
     /\ NoProperPrefixParses(stream)
     /\ WholeStreamThenClose)
        => rfr = ReturnData(stream)

\* the peer's reply was the mapping m and the receiver returned all of it
Received(m) == rfr = ReturnData(Encode(m))

StatusError(m) == "status" \in DOMAIN m /\ m["status"] = JStr("error")
SuccessFalse(m) == "success" \in DOMAIN m /\ m["success"] = JFalse
FailureShape(m) == StatusError(m) \/ SuccessFalse(m)

\* {"status": "error", "error": X} and {"success": false, "message": X}
StatusErrorReply(X) == MkMap(JStr("error"), Absent, X, Absent, Absent)
SuccessFalseReply(X) == MkMap(Absent, JFalse, Absent, X, Absent)

Messages == {JStr("X"), JStr(""), JStr(NonAscii)}

\* send_command has returned after the receiver handed it the bytes b
DoneWith(b) == Done /\ rfr = ReturnData(b)

\* every reply mapping of the peer with its bytes on the wire
EncodedReplies == { <<m, Encode(m)>> : m \in AllReplyMaps }

\* C6: the peer replies {"status":"error","error":X} and
\* {"success":false,"message":X} both make send_command return exactly
\* {"status":"error","error":X}, for every message X.
C6_ErrorShapesAgree ==
    (Done /\ rfr.kind = "return") =>
        \A X \in Messages :
            (Received(StatusErrorReply(X)) \/ Received(SuccessFalseReply(X)))
                => ret = Returned(CanonicalFailure(X))

C6_Witness ==
    /\ Done
    /\ Received(SuccessFalseReply(JStr(NonAscii)))
    /\ ret = Returned(CanonicalFailure(JStr(NonAscii)))

\* C7, as claimed: for every peer reply in either failure shape with its
\* message under "error" or "message", with or without further fields,
\* send_command returns a mapping whose only fields are status = "error"
\* and error = the message.
C7_FailureShapesBecomeCanonical ==
    \A m \in AllReplyMaps :
        (/\ Done
         /\ FailureShape(m)
         /\ {"error", "message"} \cap DOMAIN m # {}
         /\ Received(m))
            => /\ ~ret.raised
               /\ ret.v.t = "obj"
               /\ DOMAIN ret.v.m = {"status", "error"}
               /\ ret.v.m["status"] = JStr("error")
               /\ "message" \notin DOMAIN m => ret.v.m["error"] = m["error"]
               /\ "error" \notin DOMAIN m => ret.v.m["error"] = m["message"]

\* the message send_command takes from a failure reply
MessageOf(m) ==
    IF "error" \in DOMAIN m /\ Truthy(m["error"]) THEN m["error"]
    ELSE IF "message" \in DOMAIN m THEN m["message"]
    ELSE JStr(UnknownError)

\* C7, amended: a reply with success == false and status # "error" is
\* returned as the mapping whose only fields are status = "error" and
\* error = the message; a reply with status == "error" is returned with all
\* of its own fields, an error field (the message) being added only when it
\* has none.  The message is the value of "error" when present and truthy,
\* otherwise the value of "message", otherwise "Unknown Unreal error".
C7_FailureShapesNormalized ==
    (Done /\ rfr.kind = "return") =>
        \A p \in EncodedReplies :
            LET m == p[1] IN
            (FailureShape(m) /\ DoneWith(p[2]))
                => ret = Returned(
                       IF ~StatusError(m) THEN CanonicalFailure(MessageOf(m))
                       ELSE IF "error" \in DOMAIN m THEN JObj(m)
                       ELSE JObj([k \in DOMAIN m \cup {"error"} |->
                                     IF k = "error" THEN MessageOf(m)
                                     ELSE m[k]]))

C7_Witness ==
    /\ Done
    /\ Received(MkMap(JStr("error"), Absent, Absent, JStr("X"), JNum(1)))
    /\ DOMAIN ret.v.m = {"status", "message", "result", "error"}
    /\ ret.v.m["error"] = JStr("X")

\* C8, as claimed: when a failure reply carries both "error" and "message",
\* the error text of the result is the value of "error", whatever that
\* value is.
C8_ErrorFieldPreferred ==
    \A m \in AllReplyMaps :
        (/\ Done
         /\ FailureShape(m)
         /\ {"error", "message"} \subseteq DOMAIN m
         /\ Received(m))
            => Get(ret.v, "error") = m["error"]

\* C8, amended: when a failure reply carries both "error" and "message",
\* the error text of the result is the value of "error" if the reply has
\* status == "error" or that value is truthy; in a success == false reply a
\* falsy "error" (empty string, null) counts as absent and the value of
\* "message" is used.
C8_TruthyErrorFieldPreferred ==
    (Done /\ rfr.kind = "return") =>
        \A p \in EncodedReplies :
            LET m == p[1] IN
            (/\ FailureShape(m)
             /\ {"error", "message"} \subseteq DOMAIN m
             /\ DoneWith(p[2]))
                => Get(ret.v, "error") =
                       IF StatusError(m) \/ Truthy(m["error"]) THEN m["error"]
                       ELSE m["message"]

C8_Witness ==
    /\ Done
    /\ Received(MkMap(Absent, JFalse, JStr("X"), JStr(NonAscii), Absent))
    /\ Get(ret.v, "error") = JStr("X")

\* the peer's serialization of any value of the model
EncodeValue(v) == IF v.t = "obj" THEN Encode(v.m) ELSE EncodeScalar(v)

Payloads ==
    { JObj(m) : m \in AllReplyMaps } \cup {JNum(1), JStr("X"), JNull}

\* every payload with its bytes on the wire
EncodedPayloads == { <<v, EncodeValue(v)>> : v \in Payloads }

\* C9, as claimed: a complete JSON reply that is in neither failure shape
\* is returned unchanged, whether or not it is a mapping.
C9_PayloadUnchanged ==
    \A v \in Payloads :
        (/\ Done
         /\ rfr = ReturnData(EncodeValue(v))
         /\ ~(v.t = "obj" /\ FailureShape(v.m)))
            => ret = Returned(v)

\* C9, amended: a complete JSON reply that is a mapping in neither failure
\* shape is returned unchanged; a reply that is not a mapping (a number, a
\* string, null) is answered with the canonical failure carrying the
\* attribute error of the missing get.
C9_MappingPayloadUnchanged ==
    (Done /\ rfr.kind = "return") =>
        \A p \in EncodedPayloads :
            LET v == p[1] IN
            DoneWith(p[2])
                => /\ (v.t = "obj" /\ ~FailureShape(v.m)) => ret = Returned(v)
                   /\ v.t # "obj" =>
                          ret = Returned(CanonicalFailure(JStr(ErrNoGet(v))))

C9_Witness ==
    /\ Done
    /\ Received(MkMap(Absent, JTrue, Absent, JStr("X"), Absent))
    /\ ret = Returned(JObj(MkMap(Absent, JTrue, Absent, JStr("X"), Absent)))

\* C10: every send_command call makes exactly one connect attempt, and the
\* socket it sends on and reads from was created by that attempt; no socket
\* left by an earlier send_command or by get_unreal_connection is used.
C10_OwnConnectionPerCall ==
    /\ connects <= 1
    /\ Done => connects = 1
    /\ pc \in {"send", "recv"} =>
           /\ connects = 1
           /\ socket # 0
           /\ socks[socket].cur
           /\ socks[socket].st = "open"
    /\ \A id \in used : socks[id].cur

\* a call reads its reply on the third socket, while the first was left by
\* get_unreal_connection and the second by an earlier send_command whose
\* connect failed
C10_Witness ==
    /\ pc = "recv"
    /\ pos > 0
    /\ Len(socks) = 3
    /\ socks[1] = Gone
    /\ socks[2].st = "closed" /\ ~socks[2].cur
    /\ used = {3}


\* C11: when send_command returns, on whatever path, every socket object
\* created during that call has been closed.
C11_NoSocketLeaked ==
    Done => \A id \in DOMAIN socks : socks[id].cur => socks[id].st = "closed"

\* C12: when connect() returned False inside send_command, the call has
\* sent on no socket and read from none when it returns, and the receiver
\* was never entered.
C12_NoIoAfterConnectFailure ==
    (Done /\ ConnectFailed) => (used = {} /\ rfr = Pending /\ pos = 0)

C12_Witness ==
    Done /\ connres = "early_fail" /\ used = {} /\ connects = 1

\* the peer accepted the connection, took the envelope and closed before
\* writing a byte
ClosedBeforeAnyByte ==
    /\ connres = "ok"
    /\ rfr.kind # "pending"
    /\ ended = "close"
    /\ pos = 0

\* C13: when the peer accepts the connection and closes it before sending
\* any byte, send_command raises nothing and returns the canonical failure
\* whose error text is "Connection closed before receiving data".
C13_EarlyCloseIsCanonicalFailure ==
    (Done /\ ClosedBeforeAnyByte)
        => ret = Returned(CanonicalFailure(JStr(ErrClosed)))

C13_Witness ==
    /\ Done
    /\ ClosedBeforeAnyByte
    /\ ret = Returned(CanonicalFailure(JStr(ErrClosed)))

\* C14: when a read times out and the bytes read until then do not form a
\* JSON document, receive_full_response raises the timeout failure and
\* returns no buffer.
C14_TimeoutRaises ==
    (rfr.kind # "pending" /\ ended = "timeout"
        /\ ~ParsesAsJson(SubSeq(stream, 1, pos)))
        => rfr = RaiseExc(ErrTimeout)

C14_Witness ==
    /\ rfr = RaiseExc(ErrTimeout)
    /\ ended = "timeout"
    /\ pos = 2
    /\ ~ParsesAsJson(SubSeq(stream, 1, pos))

C16_DecodeFailureContinues ==
    rfr.kind = "raise" => ended # ""


\* C17: every send_command call eventually returns, whatever the peer does
\* (a peer that keeps sending bytes that never complete a JSON document
\* included), given that every single socket operation returns or times
\* out.
C17_EveryCallReturns == (pc # "idle") ~> (pc = "idle")


\* in this call the peer accepted the connection, the envelope went out and
\* the receiver ended on a read that delivered bytes of the reply: no
\* close, timeout or reset came before the reply was there
PeerReplied ==
    /\ connres = "ok"
    /\ rfr.kind # "pending"
    /\ ended = ""

\* C18: after any sequence of earlier calls and get_unreal_connection
\* calls, with any outcomes, a send_command call in which the peer accepts
\* the connection and replies with one complete JSON document returns that
\* reply, normalized.
C18_LaterCallReturnsReply ==
    (Done /\ PeerReplied) =>
        \A p \in EncodedReplies :
            stream = p[2] => ret = Normalize(JObj(p[1]))


\* the sockets caller t wrote to, read from or closed on leaving, other
\* than the one its own connect() created
Foreign(t) == (th[t].used \cup th[t].closed) \ {th[t].own}

\* C19, as claimed: when two send_command calls on the one connection
\* object overlap, in any interleaving, each call writes to, reads from and
\* closes only the socket it opened itself.
C19_NeverSharedWhenOverlapping ==
    \A t \in Threads : Foreign(t) = {}

\* C19, amended: a send_command call during which no other send_command
\* call is running on the connection object writes to, reads from and
\* closes only the socket it opened itself; the socket is held in the
\* object's field without a lock, so calls that overlap may use and close
\* each other's socket.
C19_OwnSocketUnlessOverlapping ==
    \A t \in Threads : ~th[t].mixed => Foreign(t) = {}

\* the two callers have each made a call, one after the other, and each
\* has used and closed the socket it opened
C19_Witness ==
    \A t \in Threads :
        /\ th[t].pc = "idle"
        /\ ~th[t].mixed
        /\ th[t].own # 0
        /\ th[t].used = {th[t].own}
        /\ th[t].closed = {th[t].own}


\* C20: on every TCP connection the client establishes, what it writes is
\* one command envelope and nothing else: a step that writes to a socket
\* that stays open writes the envelope as the first thing written to it,
\* and no step closes a connected socket to which no envelope was written.
C20_OneEnvelopePerConnection ==
    [][\A id \in DOMAIN socks :
          /\ (socks'[id].st = "open" /\ socks'[id].wr # socks[id].wr)
                => socks'[id].wr = <<"envelope">>
          /\ (socks[id].tcp /\ socks[id].st = "open"
                 /\ socks'[id].st = "closed")
                => socks[id].wr = <<"envelope">>]_vars

----------------------------------------------------------------------------
(* The order of the socket events of one call *)

Ops(events) == [i \in DOMAIN events |-> events[i].op]

IsPrefix(a, b) == Len(a) <= Len(b) /\ a = SubSeq(b, 1, Len(a))

FullOrder == <<"connect", "send", "recv", "close", "return">>

\* the events of a finished call whose connect succeeded: all of them, or
\* without the receives (sendall raised), or without send and receives
\* (json.dumps raised)
CallOrders ==
    { FullOrder,
      <<"connect", "send", "close", "return">>,
      <<"connect", "close", "return">> }

\* C21, as claimed: every send_command call whose connect succeeds has the
\* socket events connect, one send-all of the envelope, one or more
\* receives, close, return, in that order.
C21_FullSequenceEveryCall ==
    (Done /\ connres = "ok") => Ops(log) = FullOrder

\* C21, amended: within a send_command call whose connect succeeds the
\* socket events are, in this order, connect, at most one send-all of the
\* envelope {type, params or {}}, receives only after a send-all that went
\* through, close, return; the close precedes the return on the success
\* and on the exception path and nothing is sent or received after it.  A
\* call that hands back what the peer wrote has all five, receives
\* included; a call whose params do not serialize sends and receives
\* nothing, one whose send-all raises receives nothing.
C21_EventsInOrder ==
    /\ connres = "ok" => \E o \in CallOrders : IsPrefix(Ops(log), o)
    /\ (Done /\ connres = "ok") =>
          /\ Ops(log) \in CallOrders
          /\ \A id \in used : socks[id].st = "closed"
          /\ \A i \in DOMAIN log : log[i].op = "send" => log[i] = SendEv(params)
    /\ (Done /\ rfr.kind = "return") => Ops(log) = FullOrder
    /\ (Done /\ connres = "ok" /\ params = "bad") =>
          Ops(log) = <<"connect", "close", "return">>

C21_Witness ==
    /\ Done
    /\ rfr.kind = "return"
    /\ params = "none"
    /\ log = <<Ev("connect"), [op |-> "send", arg |-> "{}"], Ev("recv"),
               Ev("close"), Ev("return")>>

----------------------------------------------------------------------------
(* The methods of the connection object *)

\* C22: the object holds at most one unclosed socket at any time: every
\* socket it created and no longer holds is closed, so connect() has
\* closed the socket it held before creating the new one, whether the new
\* attempt succeeded or failed.
C22_AtMostOneUnclosedSocket ==
    \A id \in DOMAIN socks : socks[id].st = "open" => id = socket

C22_Witness ==
    /\ last = "connect"
    /\ connres = "late_fail"
    /\ Len(socks) = 2
    /\ socks[1].tcp
    /\ socks[1].st = "closed"
    /\ socket = 2
    /\ socks[2].st = "open"

\* C23: connect() never raises and returns the connected flag it leaves:
\* True with the flag set and a connected socket held when nothing failed,
\* False with the flag cleared after any failure, whatever the state
\* before the call.
C23_ConnectReturnsConnectedFlag ==
    last = "connect" =>
        /\ ret \in {Returned(JTrue), Returned(JFalse)}
        /\ (ret = Returned(JTrue)) <=> connected
        /\ connected <=> connres = "ok"
        /\ connected => (socket # 0 /\ socks[socket].st = "open"
                                    /\ socks[socket].tcp)

C23_Witness ==
    /\ last = "connect"
    /\ connres = "early_fail"
    /\ ret = Returned(JFalse)
    /\ ~connected
    /\ Len(socks) = 1
    /\ socks[1].tcp

\* C24: from every state the object can be in, disconnect() leaves the
\* socket None and connected false with the socket it held closed, and a
\* second disconnect() changes nothing.
C24_DisconnectClearsAndIsIdempotent ==
    pc = "idle" =>
        LET d == disconnect(socket, socks)
            e == disconnect(d.socket, d.socks)
        IN /\ d.socket = 0
           /\ ~d.connected
           /\ socket # 0 => d.socks[socket].st = "closed"
           /\ e = d
           /\ last = "disconnect" => (socket = 0 /\ ~connected)

C24_Witness ==
    /\ last = "disconnect"
    /\ socket = 0
    /\ ~connected
    /\ Len(socks) = 1
    /\ socks[1].tcp
    /\ socks[1].st = "closed"

\* C25: get_unreal_connection returns None or an object that holds an
\* open, connected socket and has connected set; the socket either has
\* just passed the probe (the probe byte is all that was written to it) or
\* is fresh (nothing was written to it), so an object that fails the probe,
\* as every object does after a send_command, is replaced.
C25_ReturnsConnectedOrNone ==
    last = "get_unreal_connection" =>
        IF gconn
        THEN /\ socket # 0
             /\ connected
             /\ socks[socket].st = "open"
             /\ socks[socket].tcp
             /\ socks[socket].wr \in {<<>>, <<"nul">>}
        ELSE socket = 0 /\ ~connected

C25_Witness ==
    /\ last = "get_unreal_connection"
    /\ gconn
    /\ socket = 3
    /\ socks[1] = Gone
    /\ socks[2] = Gone
    /\ socks[3].wr = <<>>
    /\ connected

\* C26: whenever a read times out the bytes read so far are no complete
\* JSON document, so the receiver never returns data after a timeout:
\* every timeout, before or after the first byte, raises the timeout
\* failure.
C26_TimeoutNeverReturnsData ==
    /\ pc = "recv" =>
          /\ ~ParsesAsJson(SubSeq(stream, 1, pos))
          /\ ReceiveStep(SubSeq(stream, 1, pos), "timeout", <<>>)
                = RaiseExc(ErrTimeout)
    /\ ended = "timeout" => rfr = RaiseExc(ErrTimeout)

C26_Witness ==
    /\ Done
    /\ ended = "timeout"
    /\ pos = 1
    /\ ret = Returned(CanonicalFailure(JStr(ErrTimeout)))

\* C27: between operations, an object whose connected flag is set holds a
\* socket.
C27_ConnectedImpliesSocket ==
    (pc = "idle" /\ connected) => socket # 0

C27_Witness ==
    /\ pc = "idle"
    /\ connected
    /\ socket = 2
    /\ last = "connect"
    /\ socks[1].st = "closed"

\* C28: normalizing a normalized reply changes nothing: for every mapping
\* the peer sends, and for every value send_command returns, applying the
\* normalization again gives the same value.
C28_NormalizeIdempotent ==
    /\ (Done /\ ret.v.t = "obj") => Normalize(ret.v) = ret
    /\ (Done /\ rfr.kind = "return") =>
          \A p \in EncodedReplies :
              DoneWith(p[2]) =>
                  LET once == Normalize(JObj(p[1]))
                  IN ~once.raised /\ Normalize(once.v) = once

C28_Witness ==
    /\ Done
    /\ Received(MkMap(JStr("error"), Absent, Absent, JStr(""), Absent))
    /\ ret = Returned(JObj([status |-> JStr("error"), message |-> JStr(""),
                            error |-> JStr("")]))

----------------------------------------------------------------------------
(* The configuration handed to connect() *)

\* C29: the settings connect() gets satisfy port in 1..65535, timeout > 0
\* and buffer_size > 0, whatever the file and the environment say.
C29_SettingsValid ==
    cfg.target # <<>> =>
        LET c == cfg.target[1]
        IN /\ 1 <= c.port /\ c.port <= 65535
           /\ c.timeout > 0
           /\ c.buffer_size > 0

\* C30: connect() uses the settings of the configuration the manager
\* loaded or reloaded last.
C30_ConnectUsesLatestConfig ==
    (cfg.op = "connect" /\ cfg.mgr # <<>>) => cfg.target = cfg.mgr

====
